---- MODULE Spec2Model ----
(***************************************************************************)
(* A model of the go-blockchain ledger: blocks, the proof-of-work search   *)
(* and check (blockchain/proof.go), block creation, the genesis block and  *)
(* the chain's AddBlock (blockchain/block.go, blockchain/blockchain.go),   *)
(* and the wallet's sign / verify contract used by main.go.                *)
(*                                                                         *)
(* Go strings and byte slices are sequences of bytes (0..255); string(b)   *)
(* and []byte(s) copy the bytes unchanged.  A big.Int is the big-endian    *)
(* byte sequence of its magnitude without leading zero bytes: the numbers *)
(* involved (2^246) do not fit a machine integer.                          *)
(***************************************************************************)
EXTENDS Integers, Sequences, FiniteSets, TLC

\* ------------------------------------------------------------------ bounds

\* Largest chain length (genesis included) the callers build.
MaxBlocks == 3
\* Largest chain length at which a concurrent caller still starts a call.
MaxRaceBlocks == 2
\* Largest nonce the model's mining search tries before giving up.
MaxNonce == 3

\* ------------------------------------------------------------- input sets

\* "Genesis", "Block 1", "Block 2" as bytes.
GenesisData == <<71, 101, 110, 101, 115, 105, 115>>
Block1Data == <<66, 108, 111, 99, 107, 32, 49>>
Block2Data == <<66, 108, 111, 99, 107, 32, 50>>
DataSet == {Block1Data, Block2Data}

Recipients == {"Alice", "Bob"}

\* Values rand.Intn(10000) can return: both ends and one in between.
InitialNonces == {0, 1, 9999}

\* Amounts (float64 in the code) are counted in tenths: 5.0 is 50, 10.0 is 100.
Tx1 == [Sender |-> "Alice", Receiver |-> "Bob", Amount |-> 50, Coinbase |-> FALSE]
Tx2 == [Sender |-> "Bob", Receiver |-> "Charlie", Amount |-> 23, Coinbase |-> FALSE]
TxLists == {<<>>, <<Tx1>>, <<Tx2, Tx1>>}

\* The digest functions the model ranges over (see md5Sum).
DigestModels == {"mix", "zero", "ones"}

\* What the concurrent callers pass.
RaceRecipients == {"Alice"}
RaceTxLists == {<<>>}

Callers == {1, 2}

VARIABLES
    Blocks,       \* chain.Blocks
    digestModel,  \* which 16-byte digest function stands for md5.Sum
    calls,        \* history: the arguments of the AddBlock calls made, in order
    signed,       \* <<>> or <<the transaction signed, the signing wallet, the signature>>
    presented,    \* <<>> or <<the transaction handed to verification>>
    verdict,      \* <<>> or <<the last verification: the key's wallet, the transaction, the outcome>>
    pc,           \* per concurrent caller: its position inside AddBlock
    rArgs,        \* per concurrent caller: <<the arguments of its call in progress>>
    rPrevIdx,     \* per concurrent caller: len(chain.Blocks) when it read the tail
    rPrevBlock,   \* per concurrent caller: <<the tail block it read>>
    rNewBlock,    \* per concurrent caller: <<the block it mined>>
    rLoaded       \* per concurrent caller: the chain.Blocks slice it read for append

vars == <<Blocks, digestModel, calls, signed, presented, verdict, pc, rArgs, rPrevIdx, rPrevBlock, rNewBlock, rLoaded>>
raceVars == <<pc, rArgs, rPrevIdx, rPrevBlock, rNewBlock, rLoaded>>
walletVars == <<signed, presented, verdict>>

\* ------------------------------------------------------------ bytes, big.Int

Zeros(n) == [i \in 1..n |-> 0]

RECURSIVE BigEndian(_, _)
\* v written big-endian into n bytes (the low n bytes of v).
BigEndian(v, n) == IF n = 0 THEN <<>> ELSE Append(BigEndian(v \div 256, n - 1), v % 256)

PutUint64(v) == BigEndian(v, 8)

RECURSIVE SetBytes(_)
\* big.Int.SetBytes: the bytes as a big-endian unsigned integer (leading zeros carry no value).
SetBytes(buf) == IF buf = <<>> THEN <<>> ELSE IF Head(buf) = 0 THEN SetBytes(Tail(buf)) ELSE buf

\* big.Int.Lsh applied to 1: the integer 2^n.
Lsh1(n) == <<2 ^ (n % 8)>> \o Zeros(n \div 8)

RECURSIVE LexCmp(_, _)
LexCmp(x, y) ==
    IF x = <<>> THEN 0
    ELSE IF Head(x) < Head(y) THEN -1
    ELSE IF Head(x) > Head(y) THEN 1
    ELSE LexCmp(Tail(x), Tail(y))

\* big.Int.Cmp: -1, 0 or 1.
Cmp(x, y) ==
    IF Len(x) < Len(y) THEN -1
    ELSE IF Len(x) > Len(y) THEN 1
    ELSE LexCmp(x, y)

\* ------------------------------------------------------------------ digest

RECURSIVE MixState(_, _, _, _)
\* An order-sensitive running pair over the input bytes, from byte i on.
MixState(data, i, a, b) ==
    IF i > Len(data) THEN <<a, b>>
    ELSE LET a2 == (a + data[i] + 1) % 251
             b2 == (3 * b + a2) % 241
         IN MixState(data, i + 1, a2, b2)

MixDigest(data) ==
    LET s == MixState(data, 1, 1, 0)
    IN [i \in 1..16 |-> (s[1] * (i + 7) + s[2] * (3 * i + 1) + Len(data)) % 256]

\* md5.Sum: a function from any byte sequence to 16 bytes.  The library's
\* compression function is not reproduced; the model ranges over three digest
\* functions of that signature: an input-sensitive one, and the two extreme
\* ones (the smallest digest, 0, and the largest, 2^128 - 1).
md5Sum(data) ==
    CASE digestModel = "mix" -> MixDigest(data)
      [] digestModel = "zero" -> Zeros(16)
      [] digestModel = "ones" -> [i \in 1..16 |-> 255]

\* ----------------------------------------------------------- proof of work

Difficulty == 10

NewProofOfWorkNarrow(block) == [Block |-> block, Target |-> Lsh1(128 - Difficulty)]

NewProofOfWork(block) == [Block |-> block, Target |-> Lsh1(256 - Difficulty)]

ComputeDataSwapped(pow, nonce) ==
    pow.Block.Data \o pow.Block.PrevHash \o PutUint64(nonce) \o PutUint64(Difficulty)

ComputeData(pow, nonce) ==
    pow.Block.PrevHash \o pow.Block.Data \o PutUint64(nonce) \o PutUint64(Difficulty)

RECURSIVE MineFrom(_, _)
\* The for loop of MineBlock from a given nonce; found is FALSE when the
\* search passed MaxNonce (the code's loop would still be running).
MineFrom(pow, nonce) ==
    LET computedHash == md5Sum(ComputeData(pow, nonce))
    IN IF Cmp(SetBytes(computedHash), pow.Target) = -1
       THEN [found |-> TRUE, nonce |-> nonce, hash |-> computedHash]
       ELSE IF nonce >= MaxNonce
            THEN [found |-> FALSE, nonce |-> nonce, hash |-> computedHash]
            ELSE MineFrom(pow, nonce + 1)

MineBlock(pow) == MineFrom(pow, 0)

ValidateInverted(pow) ==
    Cmp(SetBytes(md5Sum(ComputeData(pow, pow.Block.Nonce))), pow.Target) = 1

Validate(pow) ==
    Cmp(SetBytes(md5Sum(ComputeData(pow, pow.Block.Nonce))), pow.Target) = -1

\* ------------------------------------------------------------------ blocks

\* Block.ComputeHash: the digest of Data followed by PrevHash.
ComputeHash(b) == [b EXCEPT !.Hash = md5Sum(b.Data \o b.PrevHash)]

BlockShell(data, prevHash, transactions, initialNonce) ==
    [Hash |-> <<>>, Data |-> data, PrevHash |-> prevHash,
     Nonce |-> initialNonce, Transactions |-> transactions]

CreateBlockKeepSeed(data, prevHash, transactions, initialNonce) ==
    LET block == BlockShell(data, prevHash, transactions, initialNonce)
        mined == MineBlock(NewProofOfWork(block))
    IN [block EXCEPT !.Hash = mined.hash]

CreateBlock(data, prevHash, transactions, initialNonce) ==
    LET block == BlockShell(data, prevHash, transactions, initialNonce)
        mined == MineBlock(NewProofOfWork(block))
    IN [block EXCEPT !.Hash = mined.hash, !.Nonce = mined.nonce]

\* Whether CreateBlock's call of MineBlock returns within the model's bound.
Mines(data, prevHash, transactions, initialNonce) ==
    MineBlock(NewProofOfWork(BlockShell(data, prevHash, transactions, initialNonce))).found

GenesisCoinbase ==
    [Sender |-> "Coinbase", Receiver |-> "Genesis", Amount |-> 0, Coinbase |-> TRUE]

GenesisWithReward(initialNonce) ==
    CreateBlock(GenesisData, <<>>,
                <<[Sender |-> "Coinbase", Receiver |-> "Genesis", Amount |-> 100, Coinbase |-> TRUE]>>,
                initialNonce)

Genesis(initialNonce) == CreateBlock(GenesisData, <<>>, <<GenesisCoinbase>>, initialNonce)

InitBlockChain(initialNonce) == <<Genesis(initialNonce)>>

\* ------------------------------------------------------------------- chain

CoinbaseTransaction(coinbaseRcpt) ==
    [Sender |-> "Coinbase", Receiver |-> coinbaseRcpt, Amount |-> 100, Coinbase |-> TRUE]

FirstBlock(blocks) == blocks[1]

\* chain.Blocks[len(chain.Blocks)-1]
TailBlock(blocks) == blocks[Len(blocks)]

CoinbaseLast(coinbaseTransaction, transactions) == transactions \o <<coinbaseTransaction>>

\* append([]*Transaction{coinbaseTransaction}, transactions...)
BlockTransactions(coinbaseTransaction, transactions) == <<coinbaseTransaction>> \o transactions

ReplaceTail(blocks, b) == [blocks EXCEPT ![Len(blocks)] = b]

\* append(chain.Blocks, newBlock)
AppendBlock(blocks, b) == Append(blocks, b)

\* Blockchain.AddBlock on a chain whose Blocks are blocks: the new Blocks.
AddBlock(blocks, data, coinbaseRcpt, transactions, initialNonce) ==
    LET prevBlock == TailBlock(blocks)
        coinbaseTransaction == CoinbaseTransaction(coinbaseRcpt)
        newBlock == CreateBlock(data, prevBlock.Hash,
                                BlockTransactions(coinbaseTransaction, transactions),
                                initialNonce)
    IN AppendBlock(blocks, newBlock)

\* ------------------------------------------------------------------ wallet
\* blockchain/wallet.go: an ideal signature scheme.  A key pair is named by
\* its wallet; a signature binds the signing key to the digest of the
\* transaction's transcript, and no two transcripts share a digest.

Wallets == {"aliceWallet", "bobWallet"}
Identities == {"Alice", "Bob", "Charlie"}
Amounts == {23, 50}
TxUniverse == [Sender : Identities, Receiver : Identities, Amount : Amounts, Coinbase : {FALSE}]
SignableTxs == {Tx1, Tx2}

NewWallet(w) == [PrivateKey |-> <<"private", w>>, PublicKey |-> <<"public", w>>]

TxDigestNoAmount(tx) == <<tx.Sender, tx.Receiver>>

\* The digest of the transaction's canonical transcript.
TxDigest(tx) == <<tx.Sender, tx.Receiver, tx.Amount>>

SignTransaction(wallet, tx) == [key |-> wallet.PrivateKey, digest |-> TxDigest(tx)]

\* TRUE when verification returns no error.
VerifiyTransaction(tx, publicKey, signature) ==
    /\ signature.key[2] = publicKey[2]
    /\ signature.digest = TxDigest(tx)

\* ------------------------------------------------- single caller (main.go)

Init ==
    /\ digestModel \in DigestModels
    /\ \E n \in InitialNonces :
          /\ Mines(GenesisData, <<>>, <<GenesisCoinbase>>, n)
          /\ Blocks = InitBlockChain(n)
    /\ calls = <<>>
    /\ signed = <<>>
    /\ presented = <<>>
    /\ verdict = <<>>
    /\ pc = [c \in Callers |-> "idle"]
    /\ rArgs = [c \in Callers |-> <<>>]
    /\ rPrevIdx = [c \in Callers |-> 0]
    /\ rPrevBlock = [c \in Callers |-> <<>>]
    /\ rNewBlock = [c \in Callers |-> <<>>]
    /\ rLoaded = [c \in Callers |-> <<>>]

\* chain.AddBlock(data, coinbaseRcpt, transactions), start to return.
AddBlockCall ==
    /\ Len(Blocks) < MaxBlocks
    /\ \E data \in DataSet, coinbaseRcpt \in Recipients, transactions \in TxLists,
          n \in InitialNonces :
          /\ Mines(data, TailBlock(Blocks).Hash,
                   BlockTransactions(CoinbaseTransaction(coinbaseRcpt), transactions), n)
          /\ Blocks' = AddBlock(Blocks, data, coinbaseRcpt, transactions, n)
          /\ calls' = Append(calls, [data |-> data, coinbaseRcpt |-> coinbaseRcpt,
                                     transactions |-> transactions])
    /\ UNCHANGED <<digestModel, walletVars, raceVars>>

Next == AddBlockCall

Spec == Init /\ [][Next]_vars

\* ----------------------------------------------- signing and verification

\* The transactions that differ from tx in exactly one of Sender, Receiver, Amount.
OneFieldChanged(tx) ==
    {t \in TxUniverse :
        Cardinality({f \in {"Sender", "Receiver", "Amount"} : t[f] # tx[f]}) = 1}

\* signature, err := wallet.SignTransaction(tx), by one of the wallets.
SignCall ==
    /\ signed = <<>>
    /\ \E w \in Wallets, tx \in SignableTxs :
          /\ signed' = <<[tx |-> tx, wallet |-> w,
                         signature |-> SignTransaction(NewWallet(w), tx)]>>
          /\ presented' = <<tx>>
    /\ UNCHANGED <<Blocks, digestModel, calls, verdict, raceVars>>

\* One field of the signed transaction is changed before it is verified.
TamperCall ==
    /\ signed # <<>>
    /\ presented = <<signed[1].tx>>
    /\ \E t \in OneFieldChanged(signed[1].tx) : presented' = <<t>>
    /\ UNCHANGED <<Blocks, digestModel, calls, signed, verdict, raceVars>>

\* err = VerifiyTransaction(tx, wallet.PublicKey, signature), with any wallet's key.
VerifyCall ==
    /\ signed # <<>>
    /\ \E w \in Wallets :
          verdict' = <<[wallet |-> w, tx |-> presented[1],
                        ok |-> VerifiyTransaction(presented[1], NewWallet(w).PublicKey,
                                                  signed[1].signature)]>>
    /\ UNCHANGED <<Blocks, digestModel, calls, signed, presented, raceVars>>

WalletNext == SignCall \/ TamperCall \/ VerifyCall

SpecWallet == Init /\ [][WalletNext]_vars

\* ------------------------------------------- two callers, no synchronization
\* AddBlock holds no lock, so two calls interleave at its reads and writes of
\* chain.Blocks: the read of the tail, the read of the slice that append
\* extends, and the store of append's result.

RacePrevHashFresh(c) == TailBlock(Blocks).Hash

\* prevBlock.Hash, of the tail block the caller read when its call began.
RacePrevHash(c) == rPrevBlock[c][1].Hash

\* prevBlock := chain.Blocks[len(chain.Blocks)-1]
RaceRead(c) ==
    /\ pc[c] = "idle"
    /\ Len(Blocks) <= MaxRaceBlocks
    /\ \E data \in DataSet, coinbaseRcpt \in RaceRecipients, transactions \in RaceTxLists :
          rArgs' = [rArgs EXCEPT ![c] = <<[data |-> data, coinbaseRcpt |-> coinbaseRcpt,
                                           transactions |-> transactions]>>]
    /\ rPrevBlock' = [rPrevBlock EXCEPT ![c] = <<TailBlock(Blocks)>>]
    /\ rPrevIdx' = [rPrevIdx EXCEPT ![c] = Len(Blocks)]
    /\ pc' = [pc EXCEPT ![c] = "read"]
    /\ UNCHANGED <<Blocks, digestModel, calls, walletVars, rNewBlock, rLoaded>>

\* newBlock := CreateBlock(data, prevBlock.Hash, append(coinbase, transactions...))
RaceCreate(c) ==
    /\ pc[c] = "read"
    /\ \E n \in InitialNonces :
          LET a == rArgs[c][1]
              txs == BlockTransactions(CoinbaseTransaction(a.coinbaseRcpt), a.transactions)
          IN /\ Mines(a.data, RacePrevHash(c), txs, n)
             /\ rNewBlock' = [rNewBlock EXCEPT ![c] = <<CreateBlock(a.data, RacePrevHash(c), txs, n)>>]
    /\ pc' = [pc EXCEPT ![c] = "mined"]
    /\ UNCHANGED <<Blocks, digestModel, calls, walletVars, rArgs, rPrevIdx, rPrevBlock, rLoaded>>

\* append's argument: the read of chain.Blocks
RaceLoad(c) ==
    /\ pc[c] = "mined"
    /\ rLoaded' = [rLoaded EXCEPT ![c] = Blocks]
    /\ pc' = [pc EXCEPT ![c] = "loaded"]
    /\ UNCHANGED <<Blocks, digestModel, calls, walletVars, rArgs, rPrevIdx, rPrevBlock, rNewBlock>>

\* chain.Blocks = append(...): the store of the extended slice
RaceStore(c) ==
    /\ pc[c] = "loaded"
    /\ Blocks' = AppendBlock(rLoaded[c], rNewBlock[c][1])
    /\ pc' = [pc EXCEPT ![c] = "done"]
    /\ UNCHANGED <<digestModel, calls, walletVars, rArgs, rPrevIdx, rPrevBlock, rNewBlock, rLoaded>>

\* The call returns; the caller may call again.
RaceReturn(c) ==
    /\ pc[c] = "done"
    /\ pc' = [pc EXCEPT ![c] = "idle"]
    /\ rArgs' = [rArgs EXCEPT ![c] = <<>>]
    /\ rPrevIdx' = [rPrevIdx EXCEPT ![c] = 0]
    /\ rPrevBlock' = [rPrevBlock EXCEPT ![c] = <<>>]
    /\ rNewBlock' = [rNewBlock EXCEPT ![c] = <<>>]
    /\ rLoaded' = [rLoaded EXCEPT ![c] = <<>>]
    /\ UNCHANGED <<Blocks, digestModel, calls, walletVars>>

RaceNext ==
    \E c \in Callers :
        RaceRead(c) \/ RaceCreate(c) \/ RaceLoad(c) \/ RaceStore(c) \/ RaceReturn(c)

SpecRace == Init /\ [][RaceNext]_vars

\* ------------------------------------------------------------------ claims

\* C1: in the single-caller chain every non-genesis block is linked to its
\* predecessor: Blocks[i].PrevHash = Blocks[i-1].Hash for every i > 0.
C1_Linked == \A i \in 2..Len(Blocks) : Blocks[i].PrevHash = Blocks[i - 1].Hash

\* A chain of three blocks whose hashes differ, so that linking to any other
\* block than the predecessor would show.
C1_Witness ==
    /\ Len(Blocks) = 3
    /\ Blocks[2].Hash # Blocks[1].Hash
    /\ Blocks[3].PrevHash = Blocks[2].Hash

\* C2: the block appended by AddBlock(data, rewardRecipient, transactions)
\* holds the coinbase {Coinbase, rewardRecipient, 10.0, true} (100 tenths) first, then the
\* caller's transactions in their order: len(transactions) + 1 in all.
C2_CoinbaseFirst ==
    /\ Len(Blocks) = Len(calls) + 1
    /\ \A i \in 1..Len(calls) :
          LET txs == Blocks[i + 1].Transactions
          IN /\ Len(txs) = Len(calls[i].transactions) + 1
             /\ txs[1] = [Sender |-> "Coinbase", Receiver |-> calls[i].coinbaseRcpt,
                          Amount |-> 100, Coinbase |-> TRUE]
             /\ \A j \in 1..Len(calls[i].transactions) :
                   txs[j + 1] = calls[i].transactions[j]

\* A call that passed two transactions, in the order Tx2, Tx1, to recipient Bob.
C2_Witness ==
    \E i \in 1..Len(calls) :
        /\ calls[i].transactions = <<Tx2, Tx1>>
        /\ calls[i].coinbaseRcpt = "Bob"
        /\ Len(Blocks[i + 1].Transactions) = 3

\* C3: InitBlockChain yields one block, and Blocks[0] stays the genesis
\* block: empty PrevHash, Data "Genesis", and the single coinbase transaction
\* {Coinbase, Genesis, 0, true}.
C3_Genesis ==
    /\ Len(Blocks) >= 1
    /\ calls = <<>> => Len(Blocks) = 1
    /\ Blocks[1].PrevHash = <<>>
    /\ Blocks[1].Data = <<71, 101, 110, 101, 115, 105, 115>>
    /\ Blocks[1].Transactions =
          <<[Sender |-> "Coinbase", Receiver |-> "Genesis", Amount |-> 0, Coinbase |-> TRUE]>>

\* The genesis block with two blocks added after it.
C3_Witness == Len(Blocks) = 3 /\ Len(calls) = 2

\* C4: Validate is true of every block CreateBlock returned, the genesis
\* block included.
C4_ValidateAfterMine == \A i \in 1..Len(Blocks) : Validate(NewProofOfWork(Blocks[i]))

\* A mined non-genesis block under the input-sensitive digest.
C4_Witness == Len(Blocks) >= 2 /\ digestModel = "mix" /\ Blocks[2].Hash # Blocks[1].Hash

\* C5: the ledger is append-only: a step that makes an AddBlock call adds
\* exactly one block and leaves every earlier block as it was at its index;
\* no other step changes the chain.
C5_AppendOnly ==
    [][/\ calls' # calls =>
             /\ Len(Blocks') = Len(Blocks) + 1
             /\ \A i \in 1..Len(Blocks) : Blocks'[i] = Blocks[i]
       /\ calls' = calls => Blocks' = Blocks]_vars

\* AddBlock has acted on a chain that already held a non-genesis block.
C5_Witness == Len(calls) = 2 /\ Len(Blocks) = 3 /\ Blocks[2].Data # Blocks[3].Data

\* C6: a block's Nonce n and Hash d are MineBlock's result: d is the digest
\* of PrevHash || Data || n (8 bytes big-endian) || difficulty (8 bytes
\* big-endian), d < Target, and no nonce below n has a digest below Target.
C6_MineFirstNonce ==
    \A i \in 1..Len(Blocks) :
        LET b == Blocks[i]
            pow == NewProofOfWork(b)
            Transcript(m) ==
                b.PrevHash \o b.Data \o <<0, 0, 0, 0, 0, 0, m \div 256, m % 256>>
                           \o <<0, 0, 0, 0, 0, 0, 0, 10>>
        IN /\ b.Nonce \in 0..65535
           /\ b.Hash = md5Sum(Transcript(b.Nonce))
           /\ Cmp(SetBytes(b.Hash), pow.Target) = -1
           /\ \A m \in 0..(b.Nonce - 1) :
                 Cmp(SetBytes(md5Sum(Transcript(m))), pow.Target) # -1
           /\ MineBlock(pow).nonce = b.Nonce
           /\ MineBlock(pow).hash = b.Hash

\* A mined block with a non-empty PrevHash, under the input-sensitive digest.
C6_Witness ==
    /\ Len(Blocks) >= 2
    /\ digestModel = "mix"
    /\ Blocks[2].PrevHash # <<>>
    /\ Blocks[2].Hash = md5Sum(ComputeData(NewProofOfWork(Blocks[2]), Blocks[2].Nonce))

\* C7: two AddBlock calls that both read the same tail before either
\* appended end with one append lost, or with both new blocks carrying the
\* tail's hash as PrevHash, so that the second is not linked to the first
\* (unless the first block's digest equals the tail's).
C7_RaceBreaksChain ==
    (/\ pc[1] = "done" /\ pc[2] = "done"
     /\ rPrevIdx[1] = rPrevIdx[2] /\ rPrevBlock[1] = rPrevBlock[2]) =>
        LET k == rPrevIdx[1]
        IN \/ Len(Blocks) < k + 2
           \/ /\ Len(Blocks) = k + 2
              /\ Blocks[k + 1].PrevHash = Blocks[k].Hash
              /\ Blocks[k + 2].PrevHash = Blocks[k].Hash
              /\ Blocks[k + 1].Hash # Blocks[k].Hash =>
                    Blocks[k + 2].PrevHash # Blocks[k + 1].Hash

\* Both calls have returned, both blocks are in the chain, and the later one
\* is not linked to its predecessor.
C7_Witness ==
    /\ pc[1] = "done" /\ pc[2] = "done"
    /\ rPrevIdx[1] = rPrevIdx[2] /\ rPrevBlock[1] = rPrevBlock[2]
    /\ Len(Blocks) = rPrevIdx[1] + 2
    /\ Blocks[Len(Blocks)].PrevHash # Blocks[Len(Blocks) - 1].Hash

\* C8: verification of a signature succeeds with the unmodified transaction
\* and the signing wallet's public key, and fails when one of Sender,
\* Receiver, Amount was changed after signing or when another wallet's public
\* key is used.
C8_SignVerify ==
    verdict # <<>> =>
        (verdict[1].ok <=> (verdict[1].tx = signed[1].tx /\ verdict[1].wallet = signed[1].wallet))

\* A verification of a transaction whose amount was changed after signing,
\* with the signer's own public key.
C8_Witness ==
    /\ verdict # <<>>
    /\ verdict[1].wallet = signed[1].wallet
    /\ verdict[1].tx.Amount # signed[1].tx.Amount
    /\ verdict[1].tx.Sender = signed[1].tx.Sender
    /\ verdict[1].tx.Receiver = signed[1].tx.Receiver
    /\ ~verdict[1].ok

\* The nonces a block is probed with: the search range and a large one.
ProbeNonces == (0..MaxNonce) \cup {9999}

\* C9: with Difficulty 10 the target 2^246 exceeds every 16-byte digest, the
\* largest (2^128 - 1) included: every block's digest is below Target at any
\* nonce, MineBlock returns nonce 0, and Validate is true of a block whatever
\* Nonce it stores.
C9_PowVacuous ==
    \A i \in 1..Len(Blocks) :
        /\ Blocks[i].Nonce = 0
        /\ \A n \in ProbeNonces :
              LET pow == NewProofOfWork([Blocks[i] EXCEPT !.Nonce = n])
              IN /\ pow.Target = <<64>> \o Zeros(30)
                 /\ Cmp(SetBytes([j \in 1..16 |-> 255]), pow.Target) = -1
                 /\ Cmp(SetBytes(md5Sum(ComputeData(pow, n))), pow.Target) = -1
                 /\ MineBlock(pow).found
                 /\ MineBlock(pow).nonce = 0
                 /\ Validate(pow)

\* A mined block under the digest function that always returns 2^128 - 1.
C9_Witness == Len(Blocks) >= 2 /\ digestModel = "ones" /\ Blocks[2].Hash = [j \in 1..16 |-> 255]

\* The transaction lists a block is re-created with.
ProbeTxLists == {<<>>, <<Tx1>>, <<CoinbaseTransaction("Bob"), Tx2, Tx1>>}

\* C10: Hash and Nonce depend on (data, prevHash) alone: creating a block
\* again from the same data and prevHash, with any transactions and any
\* initial nonce, gives the same Hash and Nonce; replacing a block's
\* transactions changes neither Validate nor the next block's link.
C10_HashIgnoresTransactions ==
    \A i \in 1..Len(Blocks) :
        \A txs \in ProbeTxLists, n \in InitialNonces :
            LET b == Blocks[i]
                again == CreateBlock(b.Data, b.PrevHash, txs, n)
                changed == [b EXCEPT !.Transactions = txs]
            IN /\ again.Hash = b.Hash
               /\ again.Nonce = b.Nonce
               /\ Validate(NewProofOfWork(changed)) = Validate(NewProofOfWork(b))
               /\ i < Len(Blocks) => Blocks[i + 1].PrevHash = changed.Hash

\* Two blocks of the chain with the same data and different transactions.
C10_Witness ==
    /\ Len(Blocks) = 3
    /\ Blocks[2].Data = Blocks[3].Data
    /\ Blocks[2].Transactions # Blocks[3].Transactions
    /\ digestModel = "mix"

====
